---- MODULE Spec2Model ----
(***************************************************************************)
(* A model of the adaptive concurrency search of model_analyzer:           *)
(*   - ConcurrencySearch (result/concurrency_search.py): the power-of-two  *)
(*     sweep, the constraint-boundary detection and the binary search,     *)
(*     driven by a caller that pulls configurations from the generator     *)
(*     search_concurrencies() and feeds measurements back with             *)
(*     add_run_config_measurement().                                       *)
(*   - BrutePlusBinaryParameterSearchRunConfigGenerator and               *)
(*     QuickPlusConcurrencySweepRunConfigGenerator (config/generate):      *)
(*     phase 1 delegates to a sub-generator, phase 2 runs one search per   *)
(*     (model, top-N result).                                              *)
(*   - ConfigRangeNumeric (config/input/config_range_numeric.py):         *)
(*     set_value normalizes a scalar, a list, a "start:stop:step" string   *)
(*     or a {start, stop, step} mapping.                                   *)
(* Python lists are modelled as sequences: the Python index i is the       *)
(* sequence index i + 1.                                                   *)
(***************************************************************************)
EXTENDS Integers, Sequences, FiniteSets, TLC

\* ------------------------------------------------------------------ bounds
\* Largest exponent chosen for run_config_search_min_concurrency.
MaxMinIndex == 1
\* Largest exponent chosen for run_config_search_max_concurrency.
MaxMaxIndex == 4
\* Largest run_config_search_max_binary_search_steps chosen.
MaxBinarySteps == 2
\* Largest number of configurations the phase-1 sub-generator yields.
MaxPhase1 == 2
\* Largest number of models under search.
MaxModels == 2
\* Largest number of results the top-N selector returns for one model.
MaxSeeds == 2
\* The exponent of the maximum concurrency when the search runs inside an
\* orchestrating generator.
MaxOrchIndex == 1

\* Largest number of ':'-separated segments of a string given to set_value.
MaxSegments == 4
MaxConcurrency == 16

\* --------------------------------------------------------------- constants
\* model_analyzer.constants.THROUGHPUT_MINIMUM_CONSECUTIVE_CONCURRENCY_TRIES
THROUGHPUT_MINIMUM_CONSECUTIVE_CONCURRENCY_TRIES == 4
\* model_analyzer.constants.THROUGHPUT_MINIMUM_GAIN = 0.05, as the fraction
\* THROUGHPUT_MINIMUM_GAIN_NUM / THROUGHPUT_MINIMUM_GAIN_DEN.
THROUGHPUT_MINIMUM_GAIN_NUM == 5
THROUGHPUT_MINIMUM_GAIN_DEN == 100

VARIABLES
    cs,       \* the ConcurrencySearch instance and the frame of its generator
    og,       \* the orchestrating generator and the frame of get_configs()
    tputs,    \* the throughput values the measurement executor can report
    crn       \* the ConfigRangeNumeric field and its last set_value call

vars == <<cs, og, tputs, crn>>

\* ------------------------------------------------------------ measurements
\* Optional[RunConfigMeasurement]: None, or a measurement with its constraint
\* verdict (is_passing_constraints) and its objective (perf_throughput).
None == [present |-> FALSE, passing |-> FALSE, tput |-> 0]

Rcm(passing, tput) == [present |-> TRUE, passing |-> passing, tput |-> tput]

Measurements(T) == {None} \cup {Rcm(p, t) : p \in BOOLEAN, t \in T}

\* A gain is a fraction num / den with den > 0.
Frac(n, d) == [num |-> n, den |-> d]

FracLess(a, b) == a.num * b.den < b.num * a.den

\* RunConfigMeasurement.compare_measurements with the single objective
\* perf_throughput: the normalized fractional gain of other over self.
CompareMeasurements(self, other) == Frac(other.tput - self.tput, self.tput)

\* Pow2 with the product 2 * i written for the power 2 ** i.
Pow2AsProduct(n) == 2 * n

RECURSIVE Pow2(_)
Pow2(n) == IF n <= 0 THEN 1 ELSE 2 * Pow2(n - 1)

\* IntHalf rounded up instead of down.
IntHalfRoundedUp(a, b) == (a + b + 1) \div 2

\* int((a + b) / 2) for non-negative a, b.
IntHalf(a, b) == (a + b) \div 2

Last(s) == s[Len(s)]

\* ------------------------------------------------------- ConcurrencySearch
\* __init__: the state of a fresh instance. pc is the position of the
\* generator returned by search_concurrencies(), nSweep the number of
\* iterations of the sweep loop that yielded, binStep the loop variable of the
\* binary loop and candidate its local variable. yielded lists what the
\* generator handed out; wcv, wcvFailing and wcvPassing record what
\* _was_constraint_violated returned and the bounds it set.
NewSearch(minI, maxI, steps) ==
    [ minIndex       |-> minI,
      maxIndex       |-> maxI,
      maxBinarySteps |-> steps,
      rcms           |-> << >>,
      concurrencies  |-> << >>,
      lastFailing    |-> 0,
      lastPassing    |-> 0,
      pc             |-> "sweep",
      nSweep         |-> 0,
      binStep        |-> 0,
      candidate      |-> -1,
      wcv            |-> "notrun",
      wcvFailing     |-> 0,
      wcvPassing     |-> 0,
      yielded        |-> << >> ]

\* int(log2(n)) for n >= 1: the exponent of the largest power of two <= n.
RECURSIVE IntLog2(_)
IntLog2(n) == IF n < 2 THEN 0 ELSE 1 + IntLog2(n \div 2)

\* ConcurrencySearch(config): __init__ turns the configured concurrency
\* bounds into the exponents of the sweep.
ConcurrencySearch(minConcurrency, maxConcurrency, steps) ==
    NewSearch(IntLog2(minConcurrency), IntLog2(maxConcurrency), steps)

\* add_run_config_measurement
AddRunConfigMeasurement(s, m) == [s EXCEPT !.rcms = Append(@, m)]

\* CheckMeasurementCountRaises that only notices missing measurements.
MeasurementsMissing(s) == Len(s.rcms) < Len(s.concurrencies)

\* _check_measurement_count: TRUE iff the exception is raised.
CheckMeasurementCountRaises(s) == Len(s.rcms) # Len(s.concurrencies)

\* AreMinimumTriesReached that asks for one more measurement.
MinimumTriesPlusOne(s) ==
    ~ (Len(s.rcms) < THROUGHPUT_MINIMUM_CONSECUTIVE_CONCURRENCY_TRIES + 1)

\* _are_minimum_tries_reached
AreMinimumTriesReached(s) ==
    ~ (Len(s.rcms) < THROUGHPUT_MINIMUM_CONSECUTIVE_CONCURRENCY_TRIES)

\* Window without its oldest entry: the slice rcms[-3:].
WindowWithoutOldest(rcms) ==
    LET n == Len(rcms)
        k == THROUGHPUT_MINIMUM_CONSECUTIVE_CONCURRENCY_TRIES - 1
    IN  IF n <= k THEN rcms ELSE SubSeq(rcms, n - k + 1, n)

\* The slice rcms[-THROUGHPUT_MINIMUM_CONSECUTIVE_CONCURRENCY_TRIES:].
Window(rcms) ==
    LET n == Len(rcms)
        k == THROUGHPUT_MINIMUM_CONSECUTIVE_CONCURRENCY_TRIES
    IN  IF n <= k THEN rcms ELSE SubSeq(rcms, n - k + 1, n)

\* _get_best_rcm: the maximum of the present entries of the window, or None.
GetBestRcm(s) ==
    LET w      == Window(s.rcms)
        pruned == {j \in 1..Len(w) : w[j].present}
    IN  IF pruned = {} THEN None
        ELSE w[CHOOSE j \in pruned :
                 /\ \A l \in pruned : w[l].tput <= w[j].tput
                 /\ \A l \in pruned : w[l].tput = w[j].tput => j <= l]

\* CalculateGain with the previous measurement taken as the older one
\* instead of the one THROUGHPUT_MINIMUM_CONSECUTIVE_CONCURRENCY_TRIES back.
CalculateGainOverPrevious(s) ==
    LET first_rcm == s.rcms[Len(s.rcms) - 1]
        best_rcm  == GetBestRcm(s)
    IN  IF ~first_rcm.present /\ ~best_rcm.present THEN Frac(0, 1)
        ELSE IF ~first_rcm.present THEN Frac(1, 1)
        ELSE IF ~best_rcm.present THEN Frac(-1, 1)
        ELSE CompareMeasurements(first_rcm, best_rcm)

\* CalculateGain that reports no gain whenever the older measurement is
\* absent.
CalculateGainAbsentAsZero(s) ==
    LET first_rcm == s.rcms[Len(s.rcms)
                            - THROUGHPUT_MINIMUM_CONSECUTIVE_CONCURRENCY_TRIES + 1]
        best_rcm  == GetBestRcm(s)
    IN  IF ~first_rcm.present THEN Frac(0, 1)
        ELSE IF ~best_rcm.present THEN Frac(-1, 1)
        ELSE CompareMeasurements(first_rcm, best_rcm)

\* _calculate_gain (called only once the minimum tries are reached)
CalculateGain(s) ==
    LET first_rcm == s.rcms[Len(s.rcms)
                            - THROUGHPUT_MINIMUM_CONSECUTIVE_CONCURRENCY_TRIES + 1]
        best_rcm  == GetBestRcm(s)
    IN  IF ~first_rcm.present /\ ~best_rcm.present THEN Frac(0, 1)
        ELSE IF ~first_rcm.present THEN Frac(1, 1)
        ELSE IF ~best_rcm.present THEN Frac(-1, 1)
        ELSE CompareMeasurements(first_rcm, best_rcm)

\* HasObjectiveGainSaturated with gain <= THROUGHPUT_MINIMUM_GAIN.
SaturatedAtMinimumGain(s) ==
    ~FracLess(Frac(THROUGHPUT_MINIMUM_GAIN_NUM, THROUGHPUT_MINIMUM_GAIN_DEN),
              CalculateGain(s))

\* _has_objective_gain_saturated: gain < THROUGHPUT_MINIMUM_GAIN
HasObjectiveGainSaturated(s) ==
    FracLess(CalculateGain(s),
             Frac(THROUGHPUT_MINIMUM_GAIN_NUM, THROUGHPUT_MINIMUM_GAIN_DEN))

\* ShouldContinueConcurrencySweep that never looks at the gain: the sweep
\* stops as soon as the minimum tries are reached.
StopAtMinimumTries(s) == ~AreMinimumTriesReached(s)

\* ShouldContinueConcurrencySweep that ends the sweep on a failing
\* measurement whatever the number of measurements.
ContinueOnlyWhilePassing(s) ==
    IF s.rcms # << >> /\ Last(s.rcms).present /\ ~Last(s.rcms).passing THEN FALSE
    ELSE IF ~AreMinimumTriesReached(s) THEN TRUE
    ELSE ~HasObjectiveGainSaturated(s)

\* _should_continue_concurrency_sweep, after the count check has passed.
ShouldContinueConcurrencySweep(s) ==
    IF ~AreMinimumTriesReached(s) THEN TRUE
    ELSE ~HasObjectiveGainSaturated(s)

\* AtConstraintFailureBoundary without the negation of the later verdict.
AtBoundaryWithoutNegation(s, index) ==
    IF ~s.rcms[index + 1].present \/ ~s.rcms[index].present THEN FALSE
    ELSE s.rcms[index + 1].passing /\ s.rcms[index].passing

\* _at_constraint_failure_boundary(index), index a Python index
AtConstraintFailureBoundary(s, index) ==
    IF ~s.rcms[index + 1].present \/ ~s.rcms[index].present THEN FALSE
    ELSE ~s.rcms[index + 1].passing /\ s.rcms[index].passing

\* The first line of range(len(rcms) - 1, 1, -1).
ScanStart(s) == Len(s.rcms) - 1

\* The exclusive end of range(len(rcms) - 1, 1, -1).
ScanStop == 1

\* The loop of _was_constraint_violated from Python index i downwards:
\* "found" with the bounds, "fault" when _concurrencies[i] is out of range,
\* "none" when the range is exhausted.
RECURSIVE BoundaryScan(_, _)
BoundaryScan(s, i) ==
    IF i <= ScanStop THEN [res |-> "none", lf |-> 0, lp |-> 0]
    ELSE IF AtConstraintFailureBoundary(s, i)
         THEN IF i + 1 > Len(s.concurrencies)
              THEN [res |-> "fault", lf |-> 0, lp |-> 0]
              ELSE [res |-> "found", lf |-> s.concurrencies[i + 1],
                    lp |-> s.concurrencies[i]]
         ELSE BoundaryScan(s, i - 1)

\* _was_constraint_violated: res is "found" (returns True), "notfound"
\* (returns False) or "fault" (IndexError on an empty measurement list or a
\* short configuration list, UnboundLocalError on the loop variable i when
\* the loop body never ran).
WasConstraintViolated(s) ==
    LET scan == BoundaryScan(s, ScanStart(s))
        \* the value the loop variable i is left with: the last value of the range
        iLeft == ScanStop + 1
    IN  IF scan.res # "none" THEN scan
        ELSE IF Len(s.rcms) = 0 THEN [res |-> "fault", lf |-> 0, lp |-> 0]
        ELSE IF s.rcms[1].present /\ ~s.rcms[1].passing
             THEN IF ScanStart(s) <= ScanStop \/ iLeft + 1 > Len(s.concurrencies)
                  THEN [res |-> "fault", lf |-> 0, lp |-> 0]
                  ELSE [res |-> "found", lf |-> s.concurrencies[iLeft + 1], lp |-> 0]
             ELSE [res |-> "notfound", lf |-> 0, lp |-> 0]

\* DetermineNextBinaryConcurrency that treats an absent measurement as a
\* failing one instead of returning the sentinel 0.
DetermineAbsentAsFailing(s) ==
    IF Last(s.rcms).present /\ Last(s.rcms).passing
    THEN [s EXCEPT !.lastPassing = Last(s.concurrencies),
                   !.candidate = IntHalf(s.lastFailing, Last(s.concurrencies))]
    ELSE [s EXCEPT !.lastFailing = Last(s.concurrencies),
                   !.candidate = IntHalf(s.lastPassing, Last(s.concurrencies))]

\* DetermineNextBinaryConcurrency that forgets to move lastPassing up to a
\* passing configuration.
DetermineWithoutPassingUpdate(s) ==
    IF ~Last(s.rcms).present
    THEN [s EXCEPT !.candidate = 0]
    ELSE IF Last(s.rcms).passing
         THEN [s EXCEPT !.candidate = IntHalf(s.lastFailing, Last(s.concurrencies))]
         ELSE [s EXCEPT !.lastFailing = Last(s.concurrencies),
                        !.candidate = IntHalf(s.lastPassing, Last(s.concurrencies))]

\* _determine_next_binary_concurrency: the candidate and the updated bounds.
DetermineNextBinaryConcurrency(s) ==
    IF ~Last(s.rcms).present
    THEN [s EXCEPT !.candidate = 0]
    ELSE IF Last(s.rcms).passing
         THEN [s EXCEPT !.lastPassing = Last(s.concurrencies),
                        !.candidate = IntHalf(s.lastFailing, Last(s.concurrencies))]
         ELSE [s EXCEPT !.lastFailing = Last(s.concurrencies),
                        !.candidate = IntHalf(s.lastPassing, Last(s.concurrencies))]

\* IsNewConcurrency without the comparison: every candidate is yielded.
AlwaysNewConcurrency(s) == TRUE

\* concurrency != self._concurrencies[-1]
IsNewConcurrency(s) == s.candidate # Last(s.concurrencies)

\* BinaryStepLimit with one iteration too many.
BinaryStepLimitPlusOne(s) == s.maxBinarySteps + 1

\* The number of iterations of the loop of _perform_binary_concurrency_search.
BinaryStepLimit(s) == s.maxBinarySteps

\* The loop of _perform_binary_concurrency_search from iteration i on, up to
\* its next yield (pc "binary", suspended in iteration binStep) or its end.
RECURSIVE BinaryLoop(_, _)
BinaryLoop(s, i) ==
    IF i >= BinaryStepLimit(s) THEN [s EXCEPT !.pc = "done", !.binStep = i]
    ELSE LET d == DetermineNextBinaryConcurrency(s)
         IN  IF IsNewConcurrency(d)
             THEN [d EXCEPT !.concurrencies = Append(@, d.candidate),
                            !.yielded = Append(@, d.candidate),
                            !.pc = "binary",
                            !.binStep = i]
             ELSE BinaryLoop(d, i + 1)

\* _perform_binary_concurrency_search from its first line.
PerformBinaryConcurrencySearch(s) ==
    BinaryLoop([s EXCEPT !.concurrencies = Append(@, s.lastFailing)], 0)

\* search_concurrencies after the sweep has returned.
AfterSweep(s) ==
    LET r == WasConstraintViolated(s)
    IN  IF r.res = "fault" THEN [s EXCEPT !.pc = "fault", !.wcv = "fault"]
        ELSE IF r.res = "notfound" THEN [s EXCEPT !.pc = "done", !.wcv = "notfound"]
        ELSE PerformBinaryConcurrencySearch(
                 [s EXCEPT !.lastFailing = r.lf, !.lastPassing = r.lp,
                           !.wcv = "found", !.wcvFailing = r.lf,
                           !.wcvPassing = r.lp])

\* The exponent of the next iteration of range(min_index, max_index + 1).
SweepIndex(s) == s.minIndex + s.nSweep

\* SweepLastIndex with the maximum concurrency itself taken for its exponent.
SweepLastIndexAsConcurrency(s) == Pow2(s.maxIndex)

\* The last exponent of range(min_index, max_index + 1).
SweepLastIndex(s) == s.maxIndex

\* _perform_concurrency_sweep resumed (or started): the next loop iteration.
PerformConcurrencySweep(s) ==
    LET i == SweepIndex(s)
    IN  IF i > SweepLastIndex(s) THEN AfterSweep(s)
        ELSE IF CheckMeasurementCountRaises(s) THEN [s EXCEPT !.pc = "error"]
        ELSE IF ShouldContinueConcurrencySweep(s)
             THEN [s EXCEPT !.concurrencies = Append(@, Pow2(i)),
                            !.yielded = Append(@, Pow2(i)),
                            !.nSweep = @ + 1]
             ELSE AfterSweep(s)

\* next() on the generator search_concurrencies(): runs it to its next yield,
\* its end ("done") or an exception ("error": TritonModelAnalyzerException,
\* "fault": any other).
SearchConcurrencies(s) ==
    IF s.pc = "sweep" THEN PerformConcurrencySweep(s)
    ELSE IF s.pc = "binary" THEN BinaryLoop(s, s.binStep + 1)
    ELSE s

\* ------------------------------------------------- the search's caller
Running(s) == s.pc \in {"sweep", "binary"}

\* No search instance exists.
NoSearch == [NewSearch(0, 0, 0) EXCEPT !.pc = "none"]

\* No orchestrating generator exists (the search is driven directly).
NoGenerator == [kind |-> "none"]

\* No ConfigRangeNumeric field exists.
NoRange == [kind |-> "none"]

\* The caller pulls the next configuration.
Pull ==
    /\ Running(cs)
    /\ cs' = SearchConcurrencies(cs)
    /\ UNCHANGED <<og, tputs, crn>>

\* The caller feeds a measurement (pass, fail or absent); at most one more
\* than the configurations it was handed.
Feed ==
    /\ cs.pc # "none"
    /\ Len(cs.rcms) <= Len(cs.yielded)
    /\ \E m \in Measurements(tputs) : cs' = AddRunConfigMeasurement(cs, m)
    /\ UNCHANGED <<og, tputs, crn>>

\* The caller honours the lockstep contract: one measurement per
\* configuration, fed before the next pull.
LockstepPull == Len(cs.rcms) = Len(cs.yielded) /\ Pull

LockstepFeed == Len(cs.rcms) < Len(cs.yielded) /\ Feed

SearchParams ==
    {p \in [minIndex : 0..MaxMinIndex, maxIndex : 0..MaxMaxIndex,
            maxBinarySteps : 0..MaxBinarySteps] : p.minIndex <= p.maxIndex}

InitSearch(T) ==
    /\ tputs = T
    /\ og = NoGenerator
    /\ crn = NoRange
    /\ \E p \in SearchParams : cs = NewSearch(p.minIndex, p.maxIndex, p.maxBinarySteps)

\* One search instance driven in lockstep.
Init == InitSearch({1, 2})

Next == LockstepPull \/ LockstepFeed

Spec == Init /\ [][Next]_vars

\* One search instance driven in lockstep by a caller that never stops: it
\* feeds the measurement of every configuration it was handed and pulls
\* again for as long as the generator is not finished.
SpecLive == Spec /\ WF_vars(Next)

\* One search instance driven by a caller that may break the lockstep.
InitFree == InitSearch({1})

NextFree == Pull \/ Feed

SpecFree == InitFree /\ [][NextFree]_vars

\* The end-to-end scenario: exponents 0 to 4, throughputs among 1, 2 and 4,
\* driven in lockstep.
InitE2E ==
    /\ tputs = {1, 2, 4}
    /\ og = NoGenerator
    /\ crn = NoRange
    /\ \E b \in 0..MaxBinarySteps : cs = NewSearch(0, 4, b)

SpecE2E == InitE2E /\ [][Next]_vars

\* The plateau scenario: throughputs 50, 52.5 and 52.51 in units of 0.01,
\* driven in lockstep.
InitPlateau ==
    /\ tputs = {5000, 5250, 5251}
    /\ og = NoGenerator
    /\ crn = NoRange
    /\ \E b \in 0..MaxBinarySteps : cs = NewSearch(0, 4, b)

SpecPlateau == InitPlateau /\ [][Next]_vars

\* A search with one binary step more than those of Spec, over a range
\* from 1, driven in lockstep.
InitDeep ==
    /\ tputs = {1}
    /\ og = NoGenerator
    /\ crn = NoRange
    /\ \E hi \in 0..MaxMaxIndex : cs = NewSearch(0, hi, MaxBinarySteps + 1)

SpecDeep == InitDeep /\ [][Next]_vars

\* A search constructed from a profile configuration whose concurrency
\* bounds are any integers, powers of two or not, driven in lockstep.
InitConfig ==
    /\ tputs = {1}
    /\ og = NoGenerator
    /\ crn = NoRange
    /\ \E lo \in 1..MaxConcurrency, hi \in 1..MaxConcurrency, b \in 0..1 :
          /\ lo <= hi
          /\ cs = ConcurrencySearch(lo, hi, b)

SpecConfig == InitConfig /\ [][Next]_vars

\* The caller reports a measurement without constraints (it passes), or
\* none.
PassingFeed ==
    /\ Len(cs.rcms) < Len(cs.yielded)
    /\ \E m \in {None} \cup {Rcm(TRUE, t) : t \in tputs} :
          cs' = AddRunConfigMeasurement(cs, m)
    /\ UNCHANGED <<og, tputs, crn>>

\* The gain scenario: throughputs 50, 52.5 and 52.51 in units of 0.01 over
\* a sweep long enough for several windows, driven in lockstep with
\* measurements that pass.
InitGain ==
    /\ tputs = {5000, 5250, 5251}
    /\ og = NoGenerator
    /\ crn = NoRange
    /\ \E lo \in 0..MaxMinIndex, b \in 0..MaxBinarySteps :
          cs = NewSearch(lo, 5, b)

NextGain == LockstepPull \/ PassingFeed

SpecGain == InitGain /\ [][NextGain]_vars

\* The throughput the test harness reports next: it doubles at every
\* measurement (_get_next_perf_throughput_value) or, with the side effects
\* 1, 2, 4, 4, ... patched in, starts at 1 and may stay level.
TestThroughputs(s) ==
    IF s.rcms = << >> THEN {1, 2}
    ELSE {Last(s.rcms).tput, 2 * Last(s.rcms).tput}

\* The test harness reports the measurement of the configuration it was
\* handed (set_last_results([self._get_next_measurement()])).
TestFeed ==
    /\ Len(cs.rcms) < Len(cs.yielded)
    /\ \E t \in TestThroughputs(cs), p \in BOOLEAN :
          cs' = AddRunConfigMeasurement(cs, Rcm(p, t))
    /\ UNCHANGED <<og, tputs, crn>>

\* The early-exit tests: maximum concurrency 16 or 64, throughputs that
\* double or stay level, driven in lockstep.
InitTest ==
    /\ tputs = {1, 2}
    /\ og = NoGenerator
    /\ crn = NoRange
    /\ \E lo \in 0..MaxMinIndex, hi \in {4, 6}, b \in 0..MaxBinarySteps :
          cs = NewSearch(lo, hi, b)

NextTest == LockstepPull \/ TestFeed

SpecTest == InitTest /\ [][NextTest]_vars

\* ------------------------------------------- the orchestrating generators
\* self._last_measurement before set_last_results has assigned it.
Unset == [present |-> FALSE, passing |-> FALSE, tput |-> -1]

\* __init__ of either generator. kind is the class, pinned[m] tells whether
\* model m has model_config_parameters, topN[m] is the number of results the
\* result manager will return for model m, p1Total the number of
\* configurations the phase-1 sub-generator (self._rcg) will yield and cfg
\* the search bounds of the profile configuration. pc is the position of the
\* generator get_configs(), rcg the state of self._rcg, model and seed the
\* loop positions of phase 2, queries the number of top_n_results calls,
\* p1Yielded the number of phase-1 configurations handed out, p2Yielded
\* whether a phase-2 configuration was handed out and setRaised whether
\* set_last_results raised for want of self._rcg. results counts the
\* iterations begun of the loop over top results, created the search
\* instances constructed and finished the searches run to exhaustion.
NewGenerator(kind, pinned, topN, p1Total, cfg) ==
    [ kind      |-> kind,
      pinned    |-> pinned,
      topN      |-> topN,
      p1Total   |-> p1Total,
      cfg       |-> cfg,
      pc        |-> "start",
      rcg       |-> "none",
      p1Yielded |-> 0,
      model     |-> 0,
      seed      |-> 0,
      queries   |-> 0,
      last      |-> Unset,
      setRaised |-> FALSE,
      p2Yielded |-> FALSE,
      results   |-> 0,
      created   |-> 0,
      finished  |-> 0 ]

\* The pair (generator, active search) an operation of the generator returns.
GS(g, s) == [g |-> g, s |-> s]

\* _is_automatic_search_mode that ignores model_config_parameters.
AlwaysAutomaticSearchMode(g) == TRUE

\* _is_automatic_search_mode
IsAutomaticSearchMode(g) == \A m \in 1..Len(g.pinned) : ~g.pinned[m]

\* ParameterSearch(self._config): the search of the quick generator's phase 2.
ParameterSearch(cfg) == NewSearch(cfg.minIndex, cfg.maxIndex, cfg.maxBinarySteps)

\* ParameterSearch.search_parameters resumed.
SearchParameters(s) == SearchConcurrencies(s)

\* Whether constructing the search of phase 2 raises: the brute generator
\* calls ConcurrencySearch(self._config, skip_parameter_sweep=True), and
\* ConcurrencySearch.__init__ takes no such argument (TypeError).
SearchConstructorRaises(g) == g.kind = "brute"

\* EntersPhase2 with the quick generator asking _is_automatic_search_mode
\* as the brute generator does.
EntersPhase2IfAutomatic(g) == IsAutomaticSearchMode(g)

\* Whether phase 2 follows phase 1: the brute generator asks
\* _is_automatic_search_mode, the quick generator always goes on.
EntersPhase2(g) == g.kind = "quick" \/ IsAutomaticSearchMode(g)

RECURSIVE NextResult(_, _)
RECURSIVE DriveSearch(_, _)

\* The loops of _binary_search_over_top_results and
\* _sweep_concurrency_over_top_results at the head of the inner loop: the
\* next result of the current model, or the top_n_results of the next model.
NextResult(g, s) ==
    IF g.model > 0 /\ g.seed < g.topN[g.model]
    THEN IF SearchConstructorRaises(g)
         THEN GS([g EXCEPT !.seed = @ + 1, !.results = @ + 1,
                           !.pc = "fault"], s)
         ELSE DriveSearch([g EXCEPT !.seed = @ + 1, !.results = @ + 1,
                                    !.created = @ + 1],
                          ParameterSearch(g.cfg))
    ELSE IF g.model < Len(g.topN)
         THEN NextResult([g EXCEPT !.model = @ + 1, !.seed = 0,
                                   !.queries = @ + 1], s)
         ELSE GS([g EXCEPT !.pc = "done"], s)

\* The innermost loop: pull the search; yield its configuration, go on to
\* the next result when it is exhausted, or let its exception through.
DriveSearch(g, s) ==
    LET r == SearchParameters(s)
    IN  IF Running(r)
        THEN GS([g EXCEPT !.pc = "phase2", !.p2Yielded = TRUE], r)
        ELSE IF r.pc = "done"
             THEN NextResult([g EXCEPT !.finished = @ + 1], r)
        ELSE GS([g EXCEPT !.pc = "fault"], r)

\* get_configs() after the sub-generator is exhausted.
AfterPhase1(g, s) ==
    IF EntersPhase2(g) THEN NextResult(g, s)
    ELSE GS([g EXCEPT !.pc = "done"], s)

\* RcgHasNext that stops one configuration early.
RcgHasNextButLast(g) == g.p1Yielded + 1 < g.p1Total

\* Whether the phase-1 sub-generator has another configuration.
RcgHasNext(g) == g.p1Yielded < g.p1Total

\* get_configs() started or resumed in phase 1 (_execute_brute_search,
\* _execute_quick_search): the next configuration of self._rcg.
Phase1(g, s) ==
    IF RcgHasNext(g)
    THEN GS([g EXCEPT !.pc = "phase1", !.rcg = "active",
                      !.p1Yielded = @ + 1], s)
    ELSE AfterPhase1([g EXCEPT !.rcg = "exhausted"], s)

\* get_configs() resumed in phase 2: the measurement last stored is added to
\* the search (AttributeError when none was ever stored), then the search is
\* pulled.
Phase2(g, s) ==
    IF g.last = Unset THEN GS([g EXCEPT !.pc = "fault"], s)
    ELSE DriveSearch(g, AddRunConfigMeasurement(s, g.last))

\* next() on the generator get_configs().
GetConfigs(g, s) ==
    IF g.pc \in {"start", "phase1"} THEN Phase1(g, s)
    ELSE IF g.pc = "phase2" THEN Phase2(g, s)
    ELSE GS(g, s)

\* SetLastResultsOf that keeps the first element of the list.
SetLastResultsFirst(g, ms) ==
    [g EXCEPT !.last = ms[1],
              !.setRaised = @ \/ g.rcg = "none"]

\* set_last_results(measurements): keeps the last element and hands the list
\* to self._rcg (AttributeError before get_configs() has created it).
SetLastResultsOf(g, ms) ==
    [g EXCEPT !.last = Last(ms),
              !.setRaised = @ \/ g.rcg = "none"]

\* ------------------------------------------------ the generator's caller
\* The measurements of the models other than the last of a list: they
\* are told apart from those of the last model by their throughput.
OtherModelMeasurements == {Rcm(p, 0) : p \in BOOLEAN}

\* The measurement lists a caller passes to set_last_results: one
\* measurement per model, the last standing for the whole batch.
Batches(T, n) ==
    {[j \in 1..n |-> IF j = n THEN m ELSE o] :
        m \in Measurements(T), o \in OtherModelMeasurements}

\* The caller pulls the next run configuration.
GetConfigsNext ==
    /\ og.kind # "none"
    /\ og.pc \in {"start", "phase1", "phase2"}
    /\ LET r == GetConfigs(og, cs) IN og' = r.g /\ cs' = r.s
    /\ UNCHANGED <<tputs, crn>>

\* The caller reports the measurements of the last run configuration: one
\* per model, the last being the one of the whole batch.
SetLastResults ==
    /\ og.kind # "none"
    /\ \E ms \in Batches(tputs, Len(og.pinned)) : og' = SetLastResultsOf(og, ms)
    /\ UNCHANGED <<cs, tputs, crn>>

\* The search bounds of the profile configuration: the range of a single
\* search is explored by Spec and SpecFree.
OrchCfgs ==
    [minIndex : {0}, maxIndex : {MaxOrchIndex}, maxBinarySteps : {1}]

InitOrch ==
    /\ tputs = {1}
    /\ cs = NoSearch
    /\ crn = NoRange
    /\ \E kind \in {"brute", "quick"}, n \in 1..MaxModels, p1 \in 0..MaxPhase1,
          cfg \in OrchCfgs :
          \E pinned \in [1..n -> BOOLEAN], topN \in [1..n -> 0..MaxSeeds] :
             og = NewGenerator(kind, pinned, topN, p1, cfg)

NextOrch == GetConfigsNext \/ SetLastResults

\* One orchestrating generator and its caller.
SpecOrch == InitOrch /\ [][NextOrch]_vars

\* ------------------------------------------------------ ConfigRangeNumeric
\* Python values: an int, a str (a sequence of characters), None, a list of
\* ints and strs, and a dict from keys to ints, strs and None.
IntV(n) == [t |-> "int", n |-> n, s |-> << >>]

StrV(s) == [t |-> "str", n |-> 0, s |-> s]

NoneV == [t |-> "none", n |-> 0, s |-> << >>]

ListV(l) == [t |-> "list", l |-> l]

DictV(d) == [t |-> "dict", d |-> d]

\* ConfigValue._is_string, _is_dict, _is_list
IsString(v) == v.t = "str"

IsDict(v) == v.t = "dict"

IsList(v) == v.t = "list"

Digits == <<"0", "1", "2", "3", "4", "5", "6", "7", "8", "9">>

IsDigit(c) == \E d \in 1..10 : Digits[d] = c

DigitValue(c) == (CHOOSE d \in 1..10 : Digits[d] = c) - 1

\* ":" in value
HasColon(s) == \E i \in 1..Len(s) : s[i] = ":"

\* value.split(":")
RECURSIVE Split(_)
Split(s) ==
    IF ~HasColon(s) THEN <<s>>
    ELSE LET k == CHOOSE i \in 1..Len(s) :
                     s[i] = ":" /\ \A j \in 1..(i - 1) : s[j] # ":"
         IN  <<SubSeq(s, 1, k - 1)>> \o Split(SubSeq(s, k + 1, Len(s)))

\* The value of a string of decimal digits.
RECURSIVE DecimalValue(_)
DecimalValue(s) ==
    IF s = << >> THEN 0
    ELSE 10 * DecimalValue(SubSeq(s, 1, Len(s) - 1)) + DigitValue(s[Len(s)])

\* int(v): the integer, or the exception raised. A str must be a non-empty
\* string of decimal digits (ValueError otherwise); None, a list and a dict
\* are no numbers (TypeError).
IntOf(v) ==
    IF v.t = "int" THEN [exc |-> "none", n |-> v.n]
    ELSE IF v.t = "str"
         THEN IF v.s # << >> /\ \A i \in 1..Len(v.s) : IsDigit(v.s[i])
              THEN [exc |-> "none", n |-> DecimalValue(v.s)]
              ELSE [exc |-> "ValueError", n |-> 0]
         ELSE [exc |-> "TypeError", n |-> 0]

\* str(n) of a non-negative int, as an f-string formats it.
RECURSIVE Str(_)
Str(n) ==
    IF n < 10 THEN <<Digits[n + 1]>>
    ELSE Str(n \div 10) \o <<Digits[(n % 10) + 1]>>

\* FormatRange that leaves the step out.
FormatRangeWithoutStep(start, stop, step) == Str(start) \o <<":">> \o Str(stop)

\* f"{start}:{stop}:{step}"
FormatRange(start, stop, step) ==
    Str(start) \o <<":">> \o Str(stop) \o <<":">> \o Str(step)

\* A field created by __init__(type_ = int) (the stored value is the empty
\* list) and set to the value stored, about to be set to arg. before is the
\* value stored when set_value is called, status what the call returned
\* ("success", "failure", or "raised" when an exception left it) and reason
\* the return statement taken.
NewRange(stored, arg) ==
    [ kind   |-> "range",
      value  |-> stored,
      before |-> stored,
      arg    |-> arg,
      status |-> "none",
      reason |-> "none" ]

\* return ConfigStatus(CONFIG_PARSER_FAILURE, message, config_object=self):
\* every message of set_value names the field, f'... field "{self.name()}"'.
Failure(o, reason) == [o EXCEPT !.status = "failure", !.reason = reason]

\* An exception that set_value does not catch leaves it.
Raised(o, exc) == [o EXCEPT !.status = "raised", !.reason = exc]

\* The validator __init__ installs when none is given: a list is valid.
Validator(new_value) == IsList(new_value)

\* ConfigValue.set_value(new_value): the validator's verdict; the value is
\* stored when it is valid.
SuperSetValue(o, new_value) ==
    IF Validator(new_value)
    THEN [o EXCEPT !.value = new_value.l, !.status = "success",
                   !.reason = "stored"]
    ELSE Failure(o, "validator")

\* The dict the string branch of set_value builds from the segments of
\* value.split(":"): the step is the int 1 for 2 segments.
RangeDict(segs) ==
    IF Len(segs) = 2
    THEN DictV([start |-> StrV(segs[1]), stop |-> StrV(segs[2]),
                step |-> IntV(1)])
    ELSE DictV([start |-> StrV(segs[1]), stop |-> StrV(segs[2]),
                step |-> StrV(segs[3])])

\* KeyCondition that tolerates keys besides "start" and "stop".
KeyConditionAtLeast(d) == "start" \in DOMAIN d /\ "stop" \in DOMAIN d

\* two_key_condition or three_key_condition
KeyCondition(d) ==
    \/ Cardinality(DOMAIN d) = 2 /\ "start" \in DOMAIN d /\ "stop" \in DOMAIN d
    \/ (Cardinality(DOMAIN d) = 3 /\ "start" \in DOMAIN d /\ "stop" \in DOMAIN d
          /\ "step" \in DOMAIN d)

\* OrderViolated that also rejects start = stop.
OrderViolatedOrEqual(start, stop) == start >= stop

\* start > stop
OrderViolated(start, stop) == start > stop

\* The dict branch of set_value: the three conversions in program order
\* (a ValueError is caught and reported, a TypeError is not), the ordering
\* check and the formatted range.
SetDict(o, d) ==
    IF ~KeyCondition(d) THEN Failure(o, "keys")
    ELSE LET start == IntOf(d["start"])
             stop  == IntOf(d["stop"])
             step  == IF "step" \notin DOMAIN d THEN [exc |-> "none", n |-> 1]
                      ELSE IntOf(d["step"])
             exc   == IF start.exc # "none" THEN start.exc
                      ELSE IF stop.exc # "none" THEN stop.exc
                      ELSE step.exc
         IN  IF exc = "ValueError" THEN Failure(o, "convert")
             ELSE IF exc # "none" THEN Raised(o, exc)
             ELSE IF OrderViolated(start.n, stop.n) THEN Failure(o, "order")
             ELSE SuperSetValue(o, ListV(<<StrV(FormatRange(start.n, stop.n,
                                                            step.n))>>))

\* The branches of set_value for a value that is not (or no longer) a str.
SetNonString(o, value) ==
    IF IsDict(value) THEN SetDict(o, value.d)
    ELSE IF IsList(value) THEN SuperSetValue(o, value)
    ELSE LET c == IntOf(value)
         IN  IF c.exc = "ValueError" THEN Failure(o, "convert")
             ELSE IF c.exc # "none" THEN Raised(o, c.exc)
             ELSE SuperSetValue(o, ListV(<<IntV(c.n)>>))

\* set_value that takes the first three segments of a longer string.
SetValueOfFirstSegments(o, value) ==
    LET called == [o EXCEPT !.arg = value, !.before = o.value]
    IN  IF IsString(value)
        THEN IF ~HasColon(value.s) THEN Failure(called, "format")
             ELSE LET cleared == [called EXCEPT !.value = << >>]
                      segs    == Split(value.s)
                  IN  IF Len(segs) >= 2
                      THEN SetNonString(cleared, RangeDict(segs))
                      ELSE Failure(cleared, "format")
        ELSE SetNonString(called, value)

\* set_value(value)
SetValueOf(o, value) ==
    LET called == [o EXCEPT !.arg = value, !.before = o.value]
    IN  IF IsString(value)
        THEN IF ~HasColon(value.s) THEN Failure(called, "format")
             ELSE LET cleared == [called EXCEPT !.value = << >>]
                      segs    == Split(value.s)
                  IN  IF Len(segs) \in {2, 3}
                      THEN SetNonString(cleared, RangeDict(segs))
                      ELSE Failure(cleared, "format")
        ELSE SetNonString(called, value)

\* -------------------------------------------------- the field's caller
\* The segments strings are built of.
Segments == {<< >>, <<"2">>, <<"5">>, <<"1", "0">>, <<"x">>}

\* The segments joined with ":".
RECURSIVE Join(_)
Join(segs) ==
    IF Len(segs) = 1 THEN segs[1]
    ELSE segs[1] \o <<":">> \o Join(Tail(segs))

Strings ==
    {StrV(Join(segs)) : segs \in UNION {[1..n -> Segments] : n \in 1..MaxSegments}}

\* The values of a dict: ints, numeric and non-numeric strs, None.
DictValues == {IntV(2), IntV(5), StrV(<<"1", "0">>), StrV(<<"x">>), NoneV}

DictKeys == {"start", "stop", "step", "end"}

Dicts ==
    {DictV(d) : d \in UNION {[K -> DictValues] : K \in SUBSET DictKeys}}

Lists == {ListV(<< >>), ListV(<<IntV(1), IntV(2), IntV(4)>>),
          ListV(<<StrV(<<"x">>)>>)}

Scalars == {IntV(2), IntV(5), NoneV}

\* The values a field holds after __init__ or an earlier successful
\* set_value: the empty list, a scalar's list, a normalized range.
StoredValues ==
    {<< >>, <<IntV(5)>>, <<StrV(<<"2", ":", "5", ":", "1">>)>>}

\* The caller sets the field.
SetValue ==
    /\ crn.kind = "range"
    /\ crn.status = "none"
    /\ crn' = SetValueOf(crn, crn.arg)
    /\ UNCHANGED <<cs, og, tputs>>

InitRange ==
    /\ tputs = {}
    /\ cs = NoSearch
    /\ og = NoGenerator
    /\ \E stored \in StoredValues,
          value \in Strings \cup Dicts \cup Lists \cup Scalars :
          crn = NewRange(stored, value)

NextRange == SetValue

\* One ConfigRangeNumeric field and its caller.
SpecRange == InitRange /\ [][NextRange]_vars

\* ------------------------------------------------------------------ claims
\* The number of configurations the binary-search phase yielded.
BinaryYields == Len(cs.yielded) - cs.nSweep

\* The pair of sweep measurements at Python positions (i - 1, i) is a
\* constraint boundary: both present, the earlier passes, the later fails.
BoundaryPair(i) ==
    /\ cs.rcms[i].present /\ cs.rcms[i].passing
    /\ cs.rcms[i + 1].present /\ ~cs.rcms[i + 1].passing

\* The sweep has ended and every one of its proposals was measured.
SweepMeasured == cs.wcv # "notrun" /\ Len(cs.rcms) >= cs.nSweep

\* C1: in every phase, a pull made while the number of measurements fed
\* differs from the number of configurations yielded yields nothing new and
\* raises the fatal protocol error.
C1_LockstepEveryPhase ==
    [][(Running(cs) /\ cs'.rcms = cs.rcms /\ cs' # cs
            /\ Len(cs.rcms) # Len(cs.yielded))
          => (cs'.pc = "error" /\ cs'.yielded = cs.yielded)]_vars

\* C2: the number of configurations yielded never exceeds
\* (maxIndex - minIndex + 1) + maxBinarySteps + 1.
C2_ProposalCountBound ==
    Len(cs.yielded) <= (cs.maxIndex - cs.minIndex + 1) + cs.maxBinarySteps + 1

\* A search that ran its whole sweep and then yielded in every binary step.
C2_Witness ==
    /\ cs.pc = "done"
    /\ cs.maxBinarySteps >= 2
    /\ cs.nSweep = cs.maxIndex - cs.minIndex + 1
    /\ BinaryYields = cs.maxBinarySteps

\* C3: if the sweep measurement at position i >= 1 (i = 1 included) fails
\* while the one at i - 1 passed, and no later such pair exists, the binary
\* phase is entered with lastFailing = configs[i], lastPassing = configs[i-1].
C3_BoundaryAtEveryPosition ==
    SweepMeasured =>
        \A i \in 1..(cs.nSweep - 1) :
            (BoundaryPair(i) /\ \A j \in (i + 1)..(cs.nSweep - 1) : ~BoundaryPair(j))
                => /\ cs.wcv = "found"
                   /\ cs.wcvFailing = cs.concurrencies[i + 1]
                   /\ cs.wcvPassing = cs.concurrencies[i]

\* C4: if every sweep measurement is present and passes, the binary phase is
\* never entered: the search ends with the sweep and both bounds stay 0.
C4_AllPassingNoBinary ==
    (\A j \in 1..Len(cs.rcms) : cs.rcms[j].present /\ cs.rcms[j].passing)
        => /\ cs.pc \in {"sweep", "done"}
           /\ cs.wcv \in {"notrun", "notfound"}
           /\ cs.wcv = "notfound" => cs.pc = "done"
           /\ cs.lastFailing = 0 /\ cs.lastPassing = 0
           /\ cs.concurrencies = cs.yielded
           /\ BinaryYields = 0

\* A search that ended after a sweep of at least three passing measurements.
C4_Witness ==
    /\ cs.pc = "done"
    /\ cs.nSweep >= 3
    /\ Len(cs.rcms) = cs.nSweep
    /\ \A j \in 1..Len(cs.rcms) : cs.rcms[j].present /\ cs.rcms[j].passing

\* The end-to-end scenario: exponents 0 to 4 and the passing throughputs
\* 1, 2, 4, 4 fed for the concurrencies 1, 2, 4, 8.
E2EFed ==
    /\ cs.minIndex = 0 /\ cs.maxIndex = 4
    /\ Len(cs.rcms) >= 4
    /\ SubSeq(cs.rcms, 1, 4) = <<Rcm(TRUE, 1), Rcm(TRUE, 2), Rcm(TRUE, 4), Rcm(TRUE, 4)>>

\* C5: in the end-to-end scenario the sweep stops before emitting 16, the
\* binary phase is skipped and exactly 4 configurations are yielded.
C5_StopsBefore16 ==
    E2EFed => /\ Len(cs.yielded) = 4
              /\ cs.yielded = <<1, 2, 4, 8>>
              /\ cs.wcv \in {"notrun", "notfound"}

\* C5 as amended: in the end-to-end scenario the sweep does not stop after
\* 8; it emits 16 as the fifth proposal, and when the fifth measurement passes
\* too the binary phase is skipped and exactly 5 configurations are yielded.
C5_Emits16 ==
    E2EFed => /\ Len(cs.rcms) = 4 => cs.pc = "sweep"
              /\ Len(cs.yielded) >= 5 => cs.yielded[5] = 16
              /\ Len(cs.rcms) >= 5 => Len(cs.yielded) >= 5
              /\ (Len(cs.rcms) >= 5 /\ cs.rcms[5].present /\ cs.rcms[5].passing
                    /\ cs.wcv # "notrun")
                 => /\ cs.pc = "done"
                    /\ cs.wcv = "notfound"
                    /\ cs.yielded = <<1, 2, 4, 8, 16>>

\* The end-to-end scenario run to its end with five passing measurements.
C5_Witness ==
    /\ E2EFed
    /\ cs.pc = "done"
    /\ Len(cs.rcms) = 5 /\ cs.rcms[5].present /\ cs.rcms[5].passing

\* The first four measurements are present with the throughputs a, b, c, d.
FirstFour(a, b, c, d) ==
    /\ Len(cs.rcms) >= 4
    /\ \A j \in 1..4 : cs.rcms[j].present
    /\ <<cs.rcms[1].tput, cs.rcms[2].tput, cs.rcms[3].tput, cs.rcms[4].tput>>
           = <<a, b, c, d>>

\* C6: a gain of exactly 5% (50, 50, 50, 52.5) stops the sweep, a gain above
\* 5% (50, 50, 50, 52.51) continues it.
C6_ExactGainStops ==
    /\ FirstFour(5000, 5000, 5000, 5250) => cs.nSweep <= 4
    /\ (FirstFour(5000, 5000, 5000, 5251) /\ Len(cs.rcms) >= 5) => cs.nSweep = 5

\* C7: the binary phase ends within maxBinarySteps iterations: each pull
\* uses at least one iteration, at most maxBinarySteps configurations are
\* yielded, and it ends with the budget used up by yields or with the
\* candidate equal to the last emitted configuration.
C7_BinaryTerminates ==
    /\ BinaryYields <= cs.maxBinarySteps
    /\ cs.binStep <= cs.maxBinarySteps
    /\ cs.pc = "binary" => /\ cs.binStep < cs.maxBinarySteps
                           /\ BinaryYields <= cs.binStep + 1
    /\ cs.wcv = "found" => cs.pc \in {"binary", "done"}
    /\ (cs.wcv = "found" /\ cs.pc = "done")
          => /\ cs.binStep = cs.maxBinarySteps
             /\ \/ BinaryYields = cs.maxBinarySteps
                \/ cs.candidate = Last(cs.concurrencies)

\* A binary phase that yielded and then converged before its budget ran out.
C7_Witness ==
    /\ cs.wcv = "found" /\ cs.pc = "done"
    /\ BinaryYields >= 1 /\ BinaryYields < cs.maxBinarySteps
    /\ cs.candidate = Last(cs.concurrencies)

\* C8: the sweep proposals are the strictly increasing values 2^i with
\* consecutive exponents from minIndex on, so none is proposed twice.
C8_SweepPowersOfTwo ==
    /\ cs.nSweep <= Len(cs.yielded)
    /\ cs.nSweep <= cs.maxIndex - cs.minIndex + 1
    /\ \A j \in 1..cs.nSweep :
          /\ cs.yielded[j] = 2 ^ (cs.minIndex + j - 1)
          /\ cs.concurrencies[j] = cs.yielded[j]
    /\ \A j, k \in 1..cs.nSweep : j < k => cs.yielded[j] < cs.yielded[k]

\* A sweep that proposed every power of two of a range of five.
C8_Witness == cs.nSweep = 5 /\ cs.maxIndex - cs.minIndex = 4

\* C9: two consecutive proposals always differ, the last sweep proposal and
\* the first binary-search proposal included.
C9_NoImmediateRepeat ==
    \A j \in 1..(Len(cs.yielded) - 1) : cs.yielded[j] # cs.yielded[j + 1]

\* A search that yielded in its binary phase right after a sweep.
C9_Witness == cs.nSweep >= 3 /\ BinaryYields >= 2

\* C10: every phase-1 configuration is yielded and the sub-generator is
\* exhausted before the top-N selector is queried and before any phase-2
\* configuration is yielded; no phase-1 configuration follows a phase-2 one
\* (the count of phase-1 configurations is final once phase 2 has begun).
C10_Phase1BeforePhase2 ==
    og.kind # "none" =>
        /\ og.p1Yielded <= og.p1Total
        /\ (og.queries > 0 \/ og.p2Yielded)
              => /\ og.rcg = "exhausted"
                 /\ og.p1Yielded = og.p1Total
        /\ og.p2Yielded => og.queries > 0
        /\ og.pc = "phase1" => og.queries = 0 /\ ~og.p2Yielded

\* A generator that yielded its two phase-1 configurations and is at the
\* second result of phase 2.
C10_Witness ==
    /\ og.kind = "quick"
    /\ og.p1Total >= 2
    /\ og.p1Yielded = og.p1Total
    /\ og.p2Yielded /\ og.pc = "phase2" /\ og.seed >= 2

\* At least one model under search has explicit model_config_parameters.
SomeModelPinned == \E m \in 1..Len(og.pinned) : og.pinned[m]

\* C11: the brute generator enters phase 2 (queries the top-N selector)
\* iff no model has explicit model_config_parameters; when some model pins
\* a configuration grid, the pull that exhausts phase 1 ends the generator
\* with zero queries of the top-N selector and no phase-2 configuration.
C11_Phase2IffAutomatic ==
    og.kind = "brute" =>
        /\ og.queries > 0 => ~SomeModelPinned
        /\ (og.rcg = "exhausted" /\ ~SomeModelPinned) => og.queries > 0
        /\ (og.rcg = "exhausted" /\ SomeModelPinned)
              => /\ og.pc = "done"
                 /\ og.queries = 0
                 /\ ~og.p2Yielded
                 /\ cs = NoSearch

\* A brute generator over two models, only the second of which pins a
\* configuration grid, that ended with phase 1.
C11_Witness ==
    /\ og.kind = "brute"
    /\ Len(og.pinned) = 2 /\ ~og.pinned[1] /\ og.pinned[2]
    /\ og.topN[1] > 0
    /\ og.p1Total >= 1 /\ og.p1Yielded = og.p1Total
    /\ og.rcg = "exhausted" /\ og.pc = "done"

\* The number of results the top-N selector returns over the first n models.
RECURSIVE TotalResults(_, _)
TotalResults(topN, n) ==
    IF n = 0 THEN 0 ELSE topN[n] + TotalResults(topN, n - 1)

\* A search suspended at a proposal that is fed the measurements ms[k],
\* ms[k + 1], ... one by one, each followed by a pull.
RECURSIVE FedInLockstep(_, _, _)
FedInLockstep(s, ms, k) ==
    IF k > Len(ms) \/ ~Running(s) THEN s
    ELSE FedInLockstep(SearchParameters(AddRunConfigMeasurement(s, ms[k])),
                       ms, k + 1)

\* C12: in phase 2 every result taken from the top-N selector gets its own
\* fresh search instance; while the generator is suspended at a phase-2
\* proposal the instance holds one measurement per earlier proposal and is
\* exactly the search a fresh instance becomes when fed its own measurements
\* in lockstep; an instance is run to exhaustion before the next one is
\* created, and the generator ends only after one search per result of
\* every model.
C12_OneFreshSearchPerSeed ==
    og.kind # "none" =>
        /\ og.created = og.results
        /\ og.finished <= og.created /\ og.created <= og.finished + 1
        /\ og.pc = "phase2"
              => /\ og.created = og.finished + 1
                 /\ Len(cs.yielded) = Len(cs.rcms) + 1
                 /\ cs = FedInLockstep(SearchParameters(ParameterSearch(og.cfg)),
                                       cs.rcms, 1)
        /\ (og.pc = "done" /\ og.queries > 0)
              => /\ og.finished = og.created
                 /\ og.created = TotalResults(og.topN, Len(og.topN))

\* Every measurement fed so far is present and passes its constraints.
NoConstraintViolated ==
    \A j \in 1..Len(cs.rcms) : cs.rcms[j].present /\ cs.rcms[j].passing

\* The gain of the best of the measurements k - 3 .. k over the measurement
\* k - 3 is above 5%.
GainAboveMinimum(k) ==
    \E j \in (k - 3)..k :
        100 * (cs.rcms[j].tput - cs.rcms[k - 3].tput) > 5 * cs.rcms[k - 3].tput

\* The objective keeps gaining: every window of 4 measurements shows a gain
\* above 5%.
KeepsGaining == \A k \in 4..Len(cs.rcms) : GainAboveMinimum(k)

\* C13: while the objective keeps gaining and no constraint is violated the
\* search yields exactly 2^minIndex, ..., 2^maxIndex in increasing order:
\* it does not end before all maxIndex - minIndex + 1 of them are proposed
\* and proposes nothing else.
C13_GainingSweepsWholeRange ==
    (NoConstraintViolated /\ KeepsGaining)
        => /\ Len(cs.yielded) <= cs.maxIndex - cs.minIndex + 1
           /\ \A j \in 1..Len(cs.yielded) :
                 cs.yielded[j] = 2 ^ (cs.minIndex + j - 1)
           /\ cs.pc \in {"sweep", "done"}
           /\ cs.pc = "done" => Len(cs.yielded) = cs.maxIndex - cs.minIndex + 1
           /\ Len(cs.rcms) = Len(cs.yielded) - 1 => cs.pc = "sweep"

\* A search with maximum concurrency 64 whose throughput doubled at every
\* step, run to its end.
C13_Witness ==
    /\ cs.pc = "done"
    /\ cs.minIndex = 0 /\ cs.maxIndex = 6
    /\ NoConstraintViolated
    /\ Len(cs.rcms) = 7
    /\ \A j \in 2..7 : cs.rcms[j].tput = 2 * cs.rcms[j - 1].tput
    /\ cs.yielded = <<1, 2, 4, 8, 16, 32, 64>>

\* With k >= 4 measurements fed, the best of the last 4 shows a gain below
\* 5% over the measurement 4 steps back (the first of those 4).
SaturatedAt(k) ==
    /\ k >= 4
    /\ \A j \in (k - 3)..k :
          100 * (cs.rcms[j].tput - cs.rcms[k - 3].tput) < 5 * cs.rcms[k - 3].tput

\* The plateau scenario of the early-exit test: maximum concurrency 64 and
\* the throughputs 1, 2, 4, 4, 4, 4 fed for the first six proposals.
PlateauFed ==
    /\ cs.minIndex = 0 /\ cs.maxIndex = 6
    /\ Len(cs.rcms) >= 6
    /\ \A j \in 1..6 : cs.rcms[j].tput = <<1, 2, 4, 4, 4, 4>>[j]

\* C14: the sweep stops at the first pull at which at least 4 measurements
\* exist and the gain is below 5%, and at no earlier pull: no proposal
\* follows such a pull, every proposal made followed pulls that showed no
\* saturation, and a sweep that ended short of the range ended at such a
\* pull. With maximum concurrency 64 and throughputs 1, 2, 4, 4, 4, 4 the
\* proposals are exactly 1, 2, 4, 8, 16, 32 and 64 is never proposed.
C14_EarlyExitOnPlateau ==
    /\ \A k \in 4..Len(cs.rcms) :
          (SaturatedAt(k) /\ k < cs.maxIndex - cs.minIndex + 1) => cs.nSweep <= k
    /\ \A k \in 4..(cs.nSweep - 1) : ~SaturatedAt(k)
    /\ (cs.wcv # "notrun" /\ cs.nSweep < cs.maxIndex - cs.minIndex + 1)
          => SaturatedAt(cs.nSweep)
    /\ PlateauFed
          => /\ cs.nSweep = 6
             /\ SubSeq(cs.yielded, 1, 6) = <<1, 2, 4, 8, 16, 32>>
             /\ \A j \in 1..Len(cs.yielded) : cs.yielded[j] # 64
             /\ (NoConstraintViolated /\ cs.wcv # "notrun")
                   => cs.pc = "done" /\ Len(cs.yielded) = 6

\* The plateau scenario run to its end with six passing measurements.
C14_Witness ==
    /\ PlateauFed
    /\ NoConstraintViolated
    /\ Len(cs.rcms) = 6
    /\ cs.pc = "done"
    /\ cs.yielded = <<1, 2, 4, 8, 16, 32>>

\* C15: a search whose caller feeds one measurement after every proposal is
\* eventually exhausted (its generator returns), and stays so: no further
\* configuration is yielded.
C15_EventuallyExhausted == <>[](cs.pc = "done")

\* Numbers and their decimal text.
Numerals ==
    {[n |-> 2, s |-> <<"2">>], [n |-> 5, s |-> <<"5">>],
     [n |-> 10, s |-> <<"1", "0">>]}

\* The text "a:b".
Colon(a, b) == a \o <<":">> \o b

\* The forms in which a number can be given as a value of a mapping.
AsValue(a) == {IntV(a.n), StrV(a.s)}

\* The last set_value call succeeded and stored the one-element list [text].
NormalizedTo(text) ==
    crn.status = "none" \/ (crn.status = "success" /\ crn.value = <<StrV(text)>>)

\* C16: a range string "start:stop:step" and a mapping {start, stop, step}
\* with start <= stop are normalized to the one-element list
\* ["start:stop:step"]; with the step omitted (2-segment string, {start,
\* stop} mapping) the step is 1; an explicit list is stored unchanged.
C16_RangeNormalized ==
    /\ \A a, b, c \in Numerals :
          a.n <= b.n =>
             /\ crn.arg = StrV(Colon(a.s, Colon(b.s, c.s)))
                   => NormalizedTo(Colon(a.s, Colon(b.s, c.s)))
             /\ crn.arg = StrV(Colon(a.s, b.s))
                   => NormalizedTo(Colon(a.s, Colon(b.s, <<"1">>)))
             /\ \A va \in AsValue(a), vb \in AsValue(b) :
                   /\ crn.arg = DictV([start |-> va, stop |-> vb])
                         => NormalizedTo(Colon(a.s, Colon(b.s, <<"1">>)))
                   /\ \A vc \in AsValue(c) :
                         crn.arg = DictV([start |-> va, stop |-> vb, step |-> vc])
                            => NormalizedTo(Colon(a.s, Colon(b.s, c.s)))
    /\ (crn.kind = "range" /\ crn.arg.t = "list" /\ crn.status # "none")
          => crn.status = "success" /\ crn.value = crn.arg.l

\* The string "2:10:2" was set and ["2:10:2"] is stored.
C16_Witness ==
    /\ crn.kind = "range"
    /\ crn.arg = StrV(<<"2", ":", "1", "0", ":", "2">>)
    /\ crn.status = "success"
    /\ crn.value = <<StrV(<<"2", ":", "1", "0", ":", "2">>)>>

\* The arguments that give the range from a to b, in string and in mapping
\* form, with the step omitted or numeric.
RangeForms(a, b) ==
    {StrV(Colon(a.s, b.s))}
        \cup {StrV(Colon(a.s, Colon(b.s, c.s))) : c \in Numerals}
        \cup {DictV([start |-> va, stop |-> vb]) :
                 va \in AsValue(a), vb \in AsValue(b)}
        \cup UNION {{DictV([start |-> va, stop |-> vb, step |-> vc]) :
                        va \in AsValue(a), vb \in AsValue(b)} :
                    vc \in UNION {AsValue(c) : c \in Numerals}}

\* C17: in string and in mapping form, set_value returns a validation
\* failure whenever start > stop and accepts the range whenever
\* start <= stop, start = stop included.
C17_OrderingCheck ==
    \A a, b \in Numerals :
        (crn.status # "none" /\ crn.arg \in RangeForms(a, b))
            => /\ a.n > b.n => crn.status = "failure" /\ crn.reason = "order"
               /\ a.n <= b.n => crn.status = "success"

\* The mapping {start: 5, stop: 2} was rejected for its order.
C17_Witness ==
    /\ crn.kind = "range"
    /\ crn.arg = DictV([start |-> IntV(5), stop |-> IntV(2)])
    /\ crn.status = "failure" /\ crn.reason = "order"

\* C18: for every input, set_value ends with a success status or with a
\* structured failure status; no exception leaves it.
C18_NoFaultPropagates ==
    crn.kind = "range" => crn.status \in {"none", "success", "failure"}

\* With k >= 4 measurements fed, the gain of the best of the last 4 over
\* the measurement 4 steps back is at least 5%: the gain is 1 when only the
\* older one is absent, 0 when all are absent.
GainAtLeastMinimum(k) ==
    LET present == {j \in (k - 3)..k : cs.rcms[j].present}
    IN  IF ~cs.rcms[k - 3].present THEN present # {}
        ELSE \E j \in present :
                100 * (cs.rcms[j].tput - cs.rcms[k - 3].tput)
                    >= 5 * cs.rcms[k - 3].tput

SweepEmissionPull ==
    /\ cs.pc = "sweep"
    /\ cs'.rcms = cs.rcms /\ cs' # cs
    /\ cs.minIndex + cs.nSweep <= cs.maxIndex

\* C20: a sweep pull with an emission due compares the number of emitted
\* configurations with the number of measurements fed; on a mismatch it
\* raises the fatal error with both lists unchanged, without a mismatch it
\* does not raise it; after the error the search yields nothing more.
C20_SweepIntegrityCheck ==
    [][/\ SweepEmissionPull
            => /\ Len(cs.rcms) # Len(cs.concurrencies)
                     => /\ cs'.pc = "error"
                        /\ cs'.concurrencies = cs.concurrencies
                        /\ cs'.yielded = cs.yielded
               /\ Len(cs.rcms) = Len(cs.concurrencies) => cs'.pc # "error"
       /\ cs.pc = "error"
            => /\ cs'.pc = "error"
               /\ cs'.concurrencies = cs.concurrencies
               /\ cs'.yielded = cs.yielded]_vars

\* A sweep that raised the fatal error at its third pull, no measurement
\* having been fed for its second proposal.
C20_Witness ==
    /\ cs.pc = "error"
    /\ cs.yielded = <<1, 2>> /\ cs.concurrencies = <<1, 2>>
    /\ Len(cs.rcms) = 1
    /\ cs.maxIndex >= 2

\* The sweep measurements hold no adjacent pair (earlier passes, later
\* fails), and the first of them is present and fails.
OnlyFirstFails ==
    /\ SweepMeasured
    /\ \A i \in 1..(cs.nSweep - 1) : ~BoundaryPair(i)
    /\ cs.rcms[1].present /\ ~cs.rcms[1].passing

\* C21: when the sweep measurements hold no adjacent (passes, fails) pair
\* but the first measurement is present and fails, the binary phase is
\* entered with lastFailing = the first emitted configuration and
\* lastPassing = 0, for every sweep length.
C21_FallbackBoundary ==
    OnlyFirstFails
        => /\ cs.wcv = "found"
           /\ cs.wcvFailing = cs.concurrencies[1]
           /\ cs.wcvPassing = 0

\* C22: of several adjacent (passes, fails) pairs of the sweep history the
\* recorded boundary is the one with the largest index, every pair down to
\* positions (0, 1) being examined; a recorded interior boundary is always
\* a pair of present measurements.
C22_BoundaryScanOrder ==
    SweepMeasured =>
        /\ \A i \in 1..(cs.nSweep - 1) :
              (BoundaryPair(i) /\ \A j \in (i + 1)..(cs.nSweep - 1) : ~BoundaryPair(j))
                 => /\ cs.wcv = "found"
                    /\ <<cs.wcvPassing, cs.wcvFailing>>
                          = <<cs.concurrencies[i], cs.concurrencies[i + 1]>>
        /\ (cs.wcv = "found" /\ cs.wcvPassing # 0)
              => \E i \in 1..(cs.nSweep - 1) :
                    /\ BoundaryPair(i)
                    /\ cs.wcvPassing = cs.concurrencies[i]
                    /\ cs.wcvFailing = cs.concurrencies[i + 1]

\* C23: for every sweep length and every combination of outcomes fed in
\* lockstep, the constraint-boundary detection returns found or not found
\* and raises no internal fault; when the first measurement fails and no
\* boundary pair exists it returns found with the passing floor 0.
C23_DetectionCompletes ==
    /\ cs.wcv \in {"notrun", "found", "notfound"}
    /\ cs.pc # "fault"
    /\ OnlyFirstFails => cs.wcv = "found" /\ cs.wcvPassing = 0

\* The step is a pull that runs a binary step on a present latest
\* measurement: a pull of the binary phase with budget left, or the pull
\* that ends the sweep and enters the binary phase with a budget.
BinaryStepPull ==
    /\ cs'.rcms = cs.rcms /\ cs' # cs
    /\ cs.rcms # << >> /\ Last(cs.rcms).present
    /\ \/ cs.pc = "binary" /\ cs.binStep + 1 < cs.maxBinarySteps
       \/ cs.pc = "sweep" /\ cs'.wcv = "found" /\ cs.maxBinarySteps > 0

\* The bounds and the last configuration of the list when the binary step
\* of the pull begins: those of the state, or the detected boundary with the
\* failing bound as the last configuration.
BoundsAtStep ==
    IF cs.pc = "binary"
    THEN [failing |-> cs.lastFailing, passing |-> cs.lastPassing,
          last |-> Last(cs.concurrencies)]
    ELSE [failing |-> cs'.wcvFailing, passing |-> cs'.wcvPassing,
          last |-> cs'.wcvFailing]

\* C24: a binary step with a present latest measurement sets lastPassing
\* (the measurement passes) or lastFailing (it fails) to the last
\* configuration of the list and leaves the other bound; the candidate is
\* floor((lastFailing + lastPassing) / 2) of the updated bounds and lies
\* between them, inclusive.
C24_BinaryStepPresent ==
    [][BinaryStepPull =>
          LET b  == BoundsAtStep
              lo == IF cs'.lastFailing < cs'.lastPassing
                    THEN cs'.lastFailing ELSE cs'.lastPassing
              hi == IF cs'.lastFailing < cs'.lastPassing
                    THEN cs'.lastPassing ELSE cs'.lastFailing
          IN  /\ Last(cs.rcms).passing
                    => cs'.lastPassing = b.last /\ cs'.lastFailing = b.failing
              /\ ~Last(cs.rcms).passing
                    => cs'.lastFailing = b.last /\ cs'.lastPassing = b.passing
              /\ 2 * cs'.candidate <= cs'.lastFailing + cs'.lastPassing
              /\ cs'.lastFailing + cs'.lastPassing < 2 * cs'.candidate + 2
              /\ lo <= cs'.candidate /\ cs'.candidate <= hi]_vars

\* A binary phase at its second proposal, made after the measurement of the
\* first one passed: the first proposal is the passing bound.
C24_Witness ==
    /\ cs.pc = "binary" /\ cs.binStep >= 1
    /\ BinaryYields = 2
    /\ cs.lastPassing = cs.yielded[Len(cs.yielded) - 1]
    /\ cs.lastPassing > 0 /\ cs.lastFailing > cs.lastPassing + 1
    /\ Last(cs.yielded) = cs.candidate

\* The step is a pull that runs a binary step on an absent latest
\* measurement.
AbsentStepPull ==
    /\ cs'.rcms = cs.rcms /\ cs' # cs
    /\ cs.rcms # << >> /\ ~Last(cs.rcms).present
    /\ \/ cs.pc = "binary" /\ cs.binStep + 1 < cs.maxBinarySteps
       \/ cs.pc = "sweep" /\ cs'.wcv = "found" /\ cs.maxBinarySteps > 0

\* C25: a binary step with an absent latest measurement leaves lastFailing
\* and lastPassing unchanged and computes the candidate 0; 0 is yielded
\* unless the last configuration of the list is 0 already, in which case
\* nothing is yielded.
C25_BinaryStepAbsent ==
    [][AbsentStepPull =>
          LET b == BoundsAtStep
          IN  /\ cs'.lastFailing = b.failing /\ cs'.lastPassing = b.passing
              /\ cs'.candidate = 0
              /\ b.last # 0 => /\ cs'.yielded = Append(cs.yielded, 0)
                               /\ cs'.pc = "binary"
              /\ b.last = 0 => /\ cs'.yielded = cs.yielded
                               /\ cs'.pc = "done"]_vars

\* A binary phase that yielded 0 for an absent measurement and, the
\* measurement of 0 being absent too, yielded nothing in its second step.
C25_Witness ==
    /\ cs.pc = "done" /\ cs.maxBinarySteps = 2
    /\ BinaryYields = 1 /\ Last(cs.yielded) = 0
    /\ Len(cs.rcms) = Len(cs.yielded)
    /\ ~Last(cs.rcms).present
    /\ ~cs.rcms[Len(cs.rcms) - 1].present

\* The step is a pull that runs a binary step whose candidate equals the
\* last configuration of the list, so that nothing is yielded.
ConvergedPull ==
    /\ cs'.rcms = cs.rcms /\ cs' # cs
    /\ \/ cs.pc = "binary" /\ cs.binStep + 1 < cs.maxBinarySteps
       \/ cs.pc = "sweep" /\ cs'.wcv = "found" /\ cs.maxBinarySteps > 0
    /\ cs'.yielded = cs.yielded

\* The two bounds differ by at most 1.
Adjacent(a, b) == a - b \in {-1, 0, 1}

\* C26 as stated: once a binary step computes a candidate equal to the last
\* configuration, nothing is yielded for the step, the search never yields
\* again, and lastFailing and lastPassing differ by at most 1.
C26_ConvergedAdjacent ==
    [][ConvergedPull =>
          /\ cs'.candidate = BoundsAtStep.last
          /\ cs'.pc = "done"
          /\ Adjacent(cs'.lastFailing, cs'.lastPassing)]_vars

\* C26 amended: once a binary step computes a candidate equal to the last
\* configuration, nothing is yielded for the step and the search never yields
\* again; the bounds differ by at most 1 when the latest measurement is
\* present, and are left as they were (at any distance) when it is absent
\* and the candidate is the sentinel 0 again.
C26_ConvergedAdjacentIfPresent ==
    [][ConvergedPull =>
          /\ cs'.candidate = BoundsAtStep.last
          /\ cs'.pc = "done"
          /\ Last(cs.rcms).present => Adjacent(cs'.lastFailing, cs'.lastPassing)
          /\ ~Last(cs.rcms).present =>
                /\ cs'.candidate = 0
                /\ cs'.lastFailing = BoundsAtStep.failing
                /\ cs'.lastPassing = BoundsAtStep.passing]_vars

\* A search that converged after at least one binary proposal and before its
\* step budget ran out, on a present measurement, with bounds 1 apart.
C26_Witness ==
    /\ cs.pc = "done" /\ cs.wcv = "found"
    /\ BinaryYields >= 1 /\ BinaryYields < cs.maxBinarySteps
    /\ Len(cs.rcms) = Len(cs.yielded)
    /\ Last(cs.rcms).present
    /\ cs.lastFailing - cs.lastPassing = 1

\* The measurements k - 3 .. k that are present.
PresentInWindow(k) == {j \in (k - 3)..k : cs.rcms[j].present}

\* The sweep ended right after its k-th measurement, short of its range.
SweepStoppedAt(k) ==
    /\ cs.nSweep = k /\ cs.wcv # "notrun"
    /\ k < cs.maxIndex - cs.minIndex + 1

\* C27: in the window of the last 4 measurements, with the first of the
\* window as the older one and the maximum of the present ones as the best:
\* when all are absent the gain is 0 and the sweep makes no further
\* proposal; when only the older one is absent the gain is 1 and the sweep
\* does not stop short of its range; when only the best is absent the gain
\* is -1 and the sweep makes no further proposal; no absent measurement
\* raises an error.
C27_GainWithAbsentMeasurements ==
    /\ \A k \in 4..Len(cs.rcms) :
          LET older == cs.rcms[k - 3]
              s     == [cs EXCEPT !.rcms = SubSeq(cs.rcms, 1, k)]
              best  == GetBestRcm(s)
          IN  /\ best.present <=> PresentInWindow(k) # {}
              /\ (~older.present /\ ~best.present)
                    => /\ CalculateGain(s) = Frac(0, 1)
                       /\ ~(cs.nSweep > k)
              /\ (~older.present /\ best.present)
                    => /\ CalculateGain(s) = Frac(1, 1)
                       /\ ~SweepStoppedAt(k)
              /\ (older.present /\ ~best.present)
                    => /\ CalculateGain(s) = Frac(-1, 1)
                       /\ ~(cs.nSweep > k)
    /\ (Len(cs.rcms) >= 4 /\ \E j \in 1..Len(cs.rcms) : ~cs.rcms[j].present)
          => cs.pc \notin {"fault", "error"}

\* A sweep that made its fifth proposal on a gain of 1: the older
\* measurement of the window is absent and only one of the others is present.
C27_Witness ==
    /\ Len(cs.rcms) >= 4
    /\ PresentInWindow(4) = {2}
    /\ cs.nSweep = 5
    /\ Len(cs.yielded) >= 5 /\ cs.yielded[5] = Pow2(cs.minIndex + 4)

\* The number of powers of two that are proposed whatever is measured.
UnconditionalProposals(s) ==
    IF s.maxIndex - s.minIndex + 1 < 4 THEN s.maxIndex - s.minIndex + 1 ELSE 4

\* C28: while fewer than 4 measurements have been fed in lockstep the sweep
\* proposes its next power of two whatever the measurements are (failing,
\* absent, decreasing), so that a sweep that is over has proposed at least
\* the first min(4, maxIndex - minIndex + 1) powers of two; the decision
\* looks at the gain only from the fourth measurement on.
C28_FirstTriesUnconditional ==
    /\ [](cs.pc \notin {"sweep", "none"} =>
            /\ cs.nSweep >= UnconditionalProposals(cs)
            /\ \A j \in 1..UnconditionalProposals(cs) :
                  cs.yielded[j] = Pow2(cs.minIndex + j - 1))
    /\ [][(SweepEmissionPull /\ Len(cs.rcms) = Len(cs.concurrencies)
                             /\ Len(cs.rcms) < 4)
            => /\ cs'.yielded = Append(cs.yielded, Pow2(cs.minIndex + cs.nSweep))
               /\ cs'.pc = "sweep"]_vars

\* Four proposals after a failing, an absent and a lower measurement.
C28_Witness ==
    /\ cs.nSweep >= 4 /\ Len(cs.rcms) >= 3
    /\ cs.rcms[1] = Rcm(FALSE, 2)
    /\ cs.rcms[2] = None
    /\ cs.rcms[3] = Rcm(FALSE, 1)
    /\ cs.yielded[4] = Pow2(cs.minIndex + 3)

\* The step resumes get_configs() in phase 2 with a measurement stored.
Phase2Resume ==
    /\ og.kind # "none" /\ og.pc = "phase2" /\ og.last # Unset
    /\ cs' # cs

\* C29: the measurement set_last_results keeps is the last element of the
\* list it was passed, never one of the other models; resuming phase 2 adds
\* exactly that measurement to the active search before pulling it (a search
\* created by the same step starts without measurements), so that no other
\* element of a list reaches a search.
C29_Phase2FeedsLastElement ==
    /\ [](og.kind # "none" =>
            /\ og.last \in Measurements(tputs) \cup {Unset}
            /\ cs.pc # "none" =>
                  \A j \in 1..Len(cs.rcms) : cs.rcms[j] \in Measurements(tputs))
    /\ [][Phase2Resume =>
            IF og'.created = og.created
            THEN cs'.rcms = Append(cs.rcms, og.last)
            ELSE cs'.rcms = << >>]_vars

\* A two-model quick generator in phase 2 whose active search was fed the
\* last element of a two-model list and proposed again, with the last
\* element of the next list stored for the next resumption.
C29_Witness ==
    /\ og.kind = "quick" /\ Len(og.pinned) = 2
    /\ og.pc = "phase2"
    /\ cs.rcms = <<Rcm(FALSE, 1)>> /\ Len(cs.yielded) = 2
    /\ og.last = None

\* C30: the quick generator runs the quick search to exhaustion before
\* phase 2 and then always goes on to phase 2, whether or not a model has
\* explicit model_config_parameters: the pull that exhausts the quick
\* search queries the top-N selector and constructs the search of the first
\* result there is, and a generator that has ended has queried the selector
\* for every model and run one search to exhaustion per result.
C30_QuickAlwaysSweeps ==
    og.kind = "quick" =>
        /\ (og.queries > 0 \/ og.created > 0 \/ og.p2Yielded)
              => og.rcg = "exhausted" /\ og.p1Yielded = og.p1Total
        /\ og.rcg = "exhausted"
              => /\ og.queries > 0
                 /\ TotalResults(og.topN, Len(og.topN)) > 0 => og.created > 0
        /\ og.pc = "done"
              => /\ og.rcg = "exhausted"
                 /\ og.queries = Len(og.topN)
                 /\ og.created = TotalResults(og.topN, Len(og.topN))
                 /\ og.finished = og.created

\* A quick generator over two models, both with explicit
\* model_config_parameters, that ended after its quick search and one
\* search per result of both models.
C30_Witness ==
    /\ og.kind = "quick"
    /\ Len(og.pinned) = 2 /\ og.pinned[1] /\ og.pinned[2]
    /\ og.topN[1] >= 1 /\ og.topN[2] >= 1
    /\ og.p1Total >= 1 /\ og.p1Yielded = og.p1Total
    /\ og.pc = "done" /\ og.p2Yielded
    /\ og.finished = og.topN[1] + og.topN[2]

\* The number of segments a string has between its colons.
SegmentCount(str) == Cardinality({i \in 1..Len(str) : str[i] = ":"}) + 1

RangeKeySets == {{"start", "stop"}, {"start", "stop", "step"}}

\* C32: a mapping is accepted only if its key set is exactly {start, stop}
\* or exactly {start, stop, step}; with a key missing, added or named
\* otherwise set_value returns the validation failure about the keys and
\* the stored value is the one from before the call.
C32_MappingKeys ==
    (crn.kind = "range" /\ crn.status # "none" /\ IsDict(crn.arg)) =>
        /\ crn.status = "success" => DOMAIN crn.arg.d \in RangeKeySets
        /\ DOMAIN crn.arg.d \notin RangeKeySets
              => /\ crn.status = "failure" /\ crn.reason = "keys"
                 /\ crn.value = crn.before

\* The mapping {start: 2, stop: 5, end: 5} was rejected for its keys while
\* [5] was stored, and [5] is stored still.
C32_Witness ==
    /\ crn.kind = "range"
    /\ crn.arg = DictV([start |-> IntV(2), stop |-> IntV(5), end |-> IntV(5)])
    /\ crn.status = "failure" /\ crn.reason = "keys"
    /\ crn.before = <<IntV(5)>> /\ crn.value = <<IntV(5)>>

\* The search is in its binary-search phase: the boundary was found and the
\* bounds are set.
InBinaryPhase == cs.pc \in {"binary", "done"} /\ cs.wcv = "found"

\* Configuration c was proposed and its own measurement, the one fed after
\* it, is present with the verdict passing.
MeasuredAs(c, passing) ==
    \E j \in 1..Len(cs.rcms) :
        /\ j <= Len(cs.yielded) /\ cs.yielded[j] = c
        /\ cs.rcms[j].present /\ cs.rcms[j].passing = passing

\* C33: in every state of the binary-search phase lastFailing is a
\* configuration whose own measurement was present and failing, and
\* lastPassing is 0 or a configuration whose own measurement was present and
\* passing.
C33_BoundsTruthful ==
    InBinaryPhase =>
        /\ MeasuredAs(cs.lastFailing, FALSE)
        /\ cs.lastPassing = 0 \/ MeasuredAs(cs.lastPassing, TRUE)

\* C34: in every state of the binary-search phase of a search fed in
\* lockstep, lastPassing <= lastFailing.
C34_PassingBelowFailing ==
    InBinaryPhase => cs.lastPassing <= cs.lastFailing

\* C35: no non-zero configuration is yielded by the binary-search phase
\* that the same search yielded before, in the sweep or in an earlier binary
\* step.
C35_NoReproposal ==
    \A j \in (cs.nSweep + 1)..Len(cs.yielded) :
        cs.yielded[j] # 0 => \A i \in 1..(j - 1) : cs.yielded[i] # cs.yielded[j]

\* The step is a pull by which the search yields a configuration.
YieldingPull == cs'.rcms = cs.rcms /\ Len(cs'.yielded) = Len(cs.yielded) + 1

\* C36: whenever the search yields 0 the latest measurement fed is absent;
\* with a present latest measurement every configuration yielded is an
\* integer >= 1.
C36_ZeroOnlyAsSentinel ==
    [][YieldingPull =>
          /\ Last(cs'.yielded) = 0 => (cs.rcms # << >> /\ ~Last(cs.rcms).present)
          /\ (cs.rcms # << >> /\ Last(cs.rcms).present) => Last(cs'.yielded) >= 1]_vars

\* C37: for every configuration (minimum lo, maximum hi, powers of two or
\* not) the search was constructed from, every sweep proposal c satisfies
\* lo <= c <= hi.
C37_SweepWithinConfiguredBounds ==
    \A lo \in 1..MaxConcurrency, hi \in 1..MaxConcurrency :
        (/\ cs.pc # "none" /\ lo <= hi
         /\ cs.minIndex = IntLog2(lo) /\ cs.maxIndex = IntLog2(hi))
            => \A j \in 1..cs.nSweep : lo <= cs.yielded[j] /\ cs.yielded[j] <= hi

\* The step resumes get_configs() in phase 2.
Phase2Pull ==
    /\ og.kind # "none" /\ og.pc = "phase2"
    /\ og'.pc # og.pc \/ cs' # cs

\* C38: a search driven through phase 2 holds exactly one measurement per
\* configuration it yielded before the one the generator is suspended at
\* and never raises the error of the measurement count; whatever the caller
\* did between the pulls, a pull leaves the stored measurement in place and
\* adds it to the search before pulling it, so that a pull without a
\* set_last_results call in between feeds the same measurement again.
C38_OneMeasurementPerYield ==
    /\ [](og.kind # "none" =>
            /\ cs.pc # "error"
            /\ og.pc = "phase2" => Len(cs.rcms) + 1 = Len(cs.yielded))
    /\ [][Phase2Pull =>
            /\ og'.last = og.last
            /\ og'.created = og.created => cs'.rcms = Append(cs.rcms, og.last)]_vars

\* C39: whenever the gain is computed (over the first k >= 4 measurements)
\* and the older measurement, the first of the window, is present, the best
\* of the window is present too and is not below the older one, so the gain
\* is not negative; the gain -1 of the case 'older present, best absent' is
\* never computed.
C39_NegativeGainUnreachable ==
    \A k \in 4..Len(cs.rcms) :
        LET s     == [cs EXCEPT !.rcms = SubSeq(cs.rcms, 1, k)]
            older == cs.rcms[k - 3]
            best  == GetBestRcm(s)
            gain  == CalculateGain(s)
        IN  /\ older.present
                  => /\ best.present /\ best.tput >= older.tput
                     /\ ~FracLess(gain, Frac(0, 1))
            /\ gain # Frac(-1, 1)

\* The gain was computed on a window whose first measurement is the only
\* one present: the best is the older one itself, the gain is 0 and the
\* sweep has ended short of its range.
C39_Witness ==
    /\ Len(cs.rcms) >= 4
    /\ PresentInWindow(4) = {1}
    /\ CalculateGain([cs EXCEPT !.rcms = SubSeq(cs.rcms, 1, 4)]).num = 0
    /\ SweepStoppedAt(4)

\* C40: a set_value call that returned a validation failure has left the
\* stored value as it was before the call, whatever the form of the input.
C40_FailureLeavesValue ==
    (crn.kind = "range" /\ crn.status = "failure") => crn.value = crn.before

====
